---- MODULE Spec2Model ----
(***************************************************************************)
(* Model of the terminal Minesweeper of src/src/main.rs: the Game struct,  *)
(* the input loop of Game::run, the end screen, mine placement             *)
(* (populate_board), the recursive reveal and the win test.                *)
(*                                                                         *)
(* A cell coordinate is <<x, y>>, as the (usize, usize) pairs of the code. *)
(* data is the board Vec<Vec<Cell>>, read in the code as data[y][x] and    *)
(* here as data[<<x, y>>].                                                 *)
(***************************************************************************)
EXTENDS Integers, Sequences, FiniteSets, TLC

VARIABLES data, num_mines, width, height, selection, is_touched,
          show_everything, screen, pc

vars == <<data, num_mines, width, height, selection, is_touched,
          show_everything, screen, pc>>

(***************************************************************************)
(* The levels.  Game::new knows 9x9 with 10 mines, 16x16 with 40 and 24x24 *)
(* with 99: square boards on which the mines always fit beside the cursor  *)
(* and its eight neighbours.  The model plays the same game on a 4x4       *)
(* board, with one mine and, as the denser levels, with two.               *)
(***************************************************************************)
\* the side of the board of a level
LevelSide == 4
\* the mines of the first level
LevelMines == 1
\* the mines of a denser level
DenseLevelMines == 2

(***************************************************************************)
(* Bounds of the model                                                     *)
(***************************************************************************)
\* largest number of cells that carry a mark at the same time
MaxMarks == 1
\* largest width, height and number of mines of the boards of arbitrary
\* dimensions
MaxWidth == 3
MaxHeight == 3
MaxMines == 2

(***************************************************************************)
(* CellType and Cell                                                       *)
(***************************************************************************)
Empty == [tag |-> "Empty", count |-> 0]

Adjacent(n) == [tag |-> "Adjacent", count |-> n]

Mine == [tag |-> "Mine", count |-> 0]

Cell(covered, cell_type, marked) ==
    [covered |-> covered, cell_type |-> cell_type, marked |-> marked]

\* const SHOW_EVERYTHING
SHOW_EVERYTHING == FALSE

(***************************************************************************)
(* Board helpers                                                           *)
(***************************************************************************)
\* mutant of directions: the SE offset is missing
directions_without_SE ==
    << <<-1, 1>>, <<-1, 0>>, <<-1, -1>>, <<0, 1>>,
       <<0, -1>>, <<1, 1>>, <<1, 0>> >>

\* the eight offsets of get_surrounding_cells, in the order of the array
directions ==
    << <<-1, 1>>, <<-1, 0>>, <<-1, -1>>, <<0, 1>>,
       <<0, -1>>, <<1, 1>>, <<1, 0>>, <<1, -1>> >>

\* data.get(y) != None && data[y].get(x) != None.  A negative isize cast to
\* usize is larger than any Vec length, so a negative coordinate never exists.
cell_exists(d, cell) == cell \in DOMAIN d

\* the existing neighbours of cell as <<x, y, cell_type>>, in array order
get_surrounding_cells(d, cell) ==
    LET cand == [i \in 1..Len(directions) |->
                    <<cell[1] + directions[i][1], cell[2] + directions[i][2]>>]
        ex == SelectSeq(cand, LAMBDA c : cell_exists(d, c))
    IN [i \in 1..Len(ex) |-> <<ex[i][1], ex[i][2], d[ex[i]].cell_type>>]

get_current_cell(d) == d[selection]

\* mutant of create_blank_board: the board is created with a mine in a corner
create_board_with_mine ==
    [c \in (0..(width - 1)) \X (0..(height - 1)) |->
        Cell(TRUE, IF c = <<0, 0>> THEN Mine ELSE Empty, FALSE)]

create_blank_board ==
    [c \in (0..(width - 1)) \X (0..(height - 1)) |-> Cell(TRUE, Empty, FALSE)]

\* mutant of ClearCell: the mark stays on the uncovered cell
ClearCellKeepsMark(d, c) == [d EXCEPT ![c].covered = FALSE]

\* the two assignments covered = false; marked = false on one cell
ClearCell(d, c) == [d EXCEPT ![c].covered = FALSE, ![c].marked = FALSE]

(***************************************************************************)
(* The reveal                                                              *)
(***************************************************************************)
RECURSIVE remove_surrounding_empty_cells(_, _)

\* mutant of RemoveStep: the recursion does not test the neighbour's type
RemoveStepAnyType(d, ns, i) ==
    IF i > Len(ns) THEN d
    ELSE IF d[<<ns[i][1], ns[i][2]>>].covered = TRUE
    THEN remove_surrounding_empty_cells(
             ClearCell(d, <<ns[i][1], ns[i][2]>>), <<ns[i][1], ns[i][2]>>)
    ELSE ClearCell(d, <<ns[i][1], ns[i][2]>>)

\* mutant of RemoveStep: a neighbour that is not expanded is left covered
RemoveStepEmptyOnly(d, ns, i) ==
    IF i > Len(ns) THEN d
    ELSE IF ns[i][3] = Empty /\ d[<<ns[i][1], ns[i][2]>>].covered = TRUE
    THEN remove_surrounding_empty_cells(
             ClearCell(d, <<ns[i][1], ns[i][2]>>), <<ns[i][1], ns[i][2]>>)
    ELSE d

\* The body of the for loop of remove_surrounding_empty_cells for entry i of
\* the neighbour list ns, whose entries are <<x, y, cell_type>>; the board is
\* left alone when the list has no entry i.
RemoveStep(d, ns, i) ==
    IF i > Len(ns) THEN d
    ELSE IF ns[i][3] = Empty /\ d[<<ns[i][1], ns[i][2]>>].covered = TRUE
    THEN remove_surrounding_empty_cells(
             ClearCell(d, <<ns[i][1], ns[i][2]>>), <<ns[i][1], ns[i][2]>>)
    ELSE ClearCell(d, <<ns[i][1], ns[i][2]>>)

\* The for loop over the neighbour list, which has at most the eight entries
\* of directions: d1 .. d8 are the boards after each iteration.  The test of
\* the IF is always true; it makes d1 .. d8 be computed in that order, one
\* finished before the next begins, as the iterations of the loop are.
remove_surrounding_empty_cells(d, cell) ==
    LET ns == get_surrounding_cells(d, cell)
        d1 == RemoveStep(d, ns, 1)
        d2 == RemoveStep(d1, ns, 2)
        d3 == RemoveStep(d2, ns, 3)
        d4 == RemoveStep(d3, ns, 4)
        d5 == RemoveStep(d4, ns, 5)
        d6 == RemoveStep(d5, ns, 6)
        d7 == RemoveStep(d6, ns, 7)
        d8 == RemoveStep(d7, ns, 8)
    IN IF /\ DOMAIN d1 = DOMAIN d2 /\ DOMAIN d3 = DOMAIN d4
          /\ DOMAIN d5 = DOMAIN d6 /\ DOMAIN d7 = DOMAIN d8
       THEN d8 ELSE d

\* mutant of uncover_cell: the neighbours of an Empty cell stay covered
uncover_cell_alone(d, cell) == ClearCell(d, cell)

uncover_cell(d, cell) ==
    LET d1 == ClearCell(d, cell) IN
    IF get_current_cell(d1).cell_type = Empty
    THEN remove_surrounding_empty_cells(d1, cell)
    ELSE d1

(***************************************************************************)
(* The reveal with its call tree on record.  A trace is the board together *)
(* with the cells remove_surrounding_empty_cells was called on, in the     *)
(* order of the calls, and the deepest nesting of the calls.  A call is    *)
(* recorded and not made once more than width * height are on record, so   *)
(* that a reveal that would run on for ever shows as a record that long.   *)
(***************************************************************************)
RECURSIVE TraceRemove(_, _, _)

\* mutant of TraceStep: the recursion does not test the covered flag
TraceStepAnyCover(t, ns, i, depth) ==
    IF i > Len(ns) THEN t
    ELSE IF ns[i][3] = Empty
    THEN TraceRemove([t EXCEPT !.data = ClearCell(@, <<ns[i][1], ns[i][2]>>)],
                     <<ns[i][1], ns[i][2]>>, depth + 1)
    ELSE [t EXCEPT !.data = ClearCell(@, <<ns[i][1], ns[i][2]>>)]

\* the body of the for loop of remove_surrounding_empty_cells, as RemoveStep,
\* at nesting depth
TraceStep(t, ns, i, depth) ==
    IF i > Len(ns) THEN t
    ELSE IF ns[i][3] = Empty /\ t.data[<<ns[i][1], ns[i][2]>>].covered = TRUE
    THEN TraceRemove([t EXCEPT !.data = ClearCell(@, <<ns[i][1], ns[i][2]>>)],
                     <<ns[i][1], ns[i][2]>>, depth + 1)
    ELSE [t EXCEPT !.data = ClearCell(@, <<ns[i][1], ns[i][2]>>)]

\* the call remove_surrounding_empty_cells(cell) at nesting depth
TraceRemove(t, cell, depth) ==
    IF Len(t.calls) > width * height
    THEN t
    ELSE LET t0 == [data |-> t.data,
                    calls |-> Append(t.calls, cell),
                    deepest |-> IF depth > t.deepest THEN depth ELSE t.deepest]
             ns == get_surrounding_cells(t0.data, cell)
             t1 == TraceStep(t0, ns, 1, depth)
             t2 == TraceStep(t1, ns, 2, depth)
             t3 == TraceStep(t2, ns, 3, depth)
             t4 == TraceStep(t3, ns, 4, depth)
             t5 == TraceStep(t4, ns, 5, depth)
             t6 == TraceStep(t5, ns, 6, depth)
             t7 == TraceStep(t6, ns, 7, depth)
             t8 == TraceStep(t7, ns, 8, depth)
         IN IF /\ t1.deepest <= t2.deepest /\ t3.deepest <= t4.deepest
               /\ t5.deepest <= t6.deepest /\ t7.deepest <= t8.deepest
            THEN t8 ELSE t

\* uncover_cell(cell) with the calls of the reveal on record
TraceUncover(d, cell) ==
    LET d1 == ClearCell(d, cell) IN
    IF get_current_cell(d1).cell_type = Empty
    THEN TraceRemove([data |-> d1, calls |-> << >>, deepest |-> 0], cell, 1)
    ELSE [data |-> d1, calls |-> << >>, deepest |-> 0]

(***************************************************************************)
(* has_won                                                                 *)
(***************************************************************************)
\* mutant of has_won: an uncovered mine does not end the scan
has_won_counting_only(d) ==
    Cardinality({c \in DOMAIN d : ~d[c].covered}) = (width * height) - num_mines

\* mutant of has_won: the mines are not subtracted
has_won_all_cells(d) ==
    LET uncovered == {c \in DOMAIN d : ~d[c].covered} IN
    IF \E c \in uncovered : d[c].cell_type = Mine
    THEN FALSE
    ELSE Cardinality(uncovered) = width * height

has_won(d) ==
    LET uncovered == {c \in DOMAIN d : ~d[c].covered} IN
    IF \E c \in uncovered : d[c].cell_type = Mine
    THEN FALSE
    ELSE Cardinality(uncovered) = (width * height) - num_mines

(***************************************************************************)
(* draw_board: the glyph shown for every cell                              *)
(***************************************************************************)
Glyph(cell, show) ==
    IF cell.marked /\ ~show THEN "MARKED"
    ELSE IF cell.covered /\ ~show THEN "COVERED"
    ELSE IF cell.cell_type = Empty THEN "EMPTY"
    ELSE IF cell.cell_type = Mine THEN "MINE"
    ELSE "NUM"

draw_board(d, show) == [c \in DOMAIN d |-> Glyph(d[c], show)]

(***************************************************************************)
(* populate_board                                                          *)
(***************************************************************************)
\* Vec::remove(index), index counted from 0
VecRemove(s, index) == SubSeq(s, 1, index) \o SubSeq(s, index + 2, Len(s))

\* iter().rposition(|&a| a == value): the last position of value, from 0
rposition(s, value) ==
    (CHOOSE p \in 1..Len(s) :
        s[p] = value /\ \A q \in (p + 1)..Len(s) : s[q] # value) - 1

\* (y * self.width) + x
CellIndex(x, y) == (y * width) + x

\* the for loop that removes the neighbours of the cursor from the indices
RECURSIVE RemoveSurroundingIndices(_, _, _)
RemoveSurroundingIndices(mi, ns, i) ==
    IF i > Len(ns) THEN mi
    ELSE RemoveSurroundingIndices(
            VecRemove(mi, rposition(mi, CellIndex(ns[i][1], ns[i][2]))), ns, i + 1)

\* mutant of mine_indices: the spot at the cursor is not removed
mine_indices_with_cursor(d) ==
    LET num_cells == width * height
        all == [i \in 1..num_cells |-> i - 1]
    IN RemoveSurroundingIndices(all, get_surrounding_cells(d, selection), 1)

\* mine_indices just before the shuffle
mine_indices(d) ==
    LET num_cells == width * height
        all == [i \in 1..num_cells |-> i - 1]
        without_cursor == VecRemove(all, CellIndex(selection[1], selection[2]))
    IN RemoveSurroundingIndices(without_cursor,
                                get_surrounding_cells(d, selection), 1)

\* the subsets of S with k elements: what the first k places of a shuffled
\* Vec can hold
RECURSIVE KSubsets(_, _)
KSubsets(S, k) ==
    IF k = 0 THEN {{}}
    ELSE UNION {{T \cup {x} : T \in KSubsets({y \in S : y > x}, k - 1)} : x \in S}

\* mutant of MineCell: the row is a remainder too
MineCellRemainder(i) == <<i % width, i % height>>

\* let x = i % self.width; let y = i / self.height;
MineCell(i) == <<i % width, i \div height>>

\* the loop data[y][x].cell_type = CellType::Mine over the indices of placed
RECURSIVE PlaceMines(_, _)
PlaceMines(d, placed) ==
    IF placed = {} THEN d
    ELSE LET i == CHOOSE j \in placed : TRUE IN
         PlaceMines([d EXCEPT ![MineCell(i)].cell_type = Mine], placed \ {i})

\* the number of entries of get_surrounding_cells whose type is Mine
NumAdjMines(d, c) ==
    LET ns == get_surrounding_cells(d, c) IN
    Cardinality({i \in 1..Len(ns) : ns[i][3] = Mine})

\* mutant of AddAdjacentCell: the cells next to a mine stay Empty
AddAdjacentCellNever(d, c) == d

\* the body of the loops over y and x that turn an Empty cell next to a mine
\* into Adjacent(n)
AddAdjacentCell(d, c) ==
    IF d[c].cell_type = Empty /\ NumAdjMines(d, c) > 0
    THEN [d EXCEPT ![c].cell_type = Adjacent(NumAdjMines(d, c))]
    ELSE d

\* the board after the first k cells of the loops for y in 0..height,
\* for x in 0..width
RECURSIVE AddAdjacent(_, _)
AddAdjacent(d, k) ==
    IF k = 0 THEN d
    ELSE AddAdjacentCell(AddAdjacent(d, k - 1),
                         <<(k - 1) % width, (k - 1) \div width>>)

\* The outcomes of populate_board on board d: every choice of the shuffle.
\* The slice [0..num_mines] panics when fewer indices are left, and
\* data[y] panics when a decoded y is not a row of the board; the mines
\* placed before that panic are any of the others that were chosen.
populate_board(d) ==
    LET mi == mine_indices(d)
        left == {mi[p] : p \in 1..Len(mi)}
    IN IF num_mines > Len(mi)
       THEN {[panicked |-> TRUE, data |-> d]}
       ELSE UNION {
              LET bad == {i \in chosen : ~cell_exists(d, MineCell(i))} IN
              IF bad = {}
              THEN {[panicked |-> FALSE,
                     data |-> AddAdjacent(PlaceMines(d, chosen),
                                         width * height)]}
              ELSE {[panicked |-> TRUE, data |-> PlaceMines(d, before)] :
                       before \in SUBSET (chosen \ bad)}
              : chosen \in KSubsets(left, num_mines)}

(***************************************************************************)
(* Game::new, main and Game::run                                           *)
(*                                                                         *)
(* pc is the place where the program waits:                                *)
(*   "main"     Game::new has returned, main is about to call run          *)
(*   "run"      event::read() in the loop of Game::run                     *)
(*   "lost"     event::read() in end_screen after "You lost!"              *)
(*   "won"      event::read() in end_screen after "You won!"               *)
(*   "exited"   run returned Ok(false), main left its loop                 *)
(*   "panicked" the thread panicked                                        *)
(***************************************************************************)
\* the fields set by Game::new, apart from the level
NewGame(w, h, m) ==
    /\ width = w
    /\ height = h
    /\ num_mines = m
    /\ data = << >>
    /\ selection = <<w \div 2, h \div 2>>
    /\ is_touched = FALSE
    /\ show_everything = SHOW_EVERYTHING
    /\ screen = << >>
    /\ pc = "main"

\* the first level
Init == NewGame(LevelSide, LevelSide, LevelMines)

\* a denser level
InitDense == NewGame(LevelSide, LevelSide, DenseLevelMines)

\* boards of arbitrary dimensions, 1 <= num_mines < width * height
InitAnyBoard ==
    \E w \in 1..MaxWidth, h \in 1..MaxHeight, m \in 1..MaxMines :
        /\ m < w * h
        /\ NewGame(w, h, m)

\* mutant of RunStart: the cursor stays where the last game left it
RunStartKeepsSelection ==
    /\ data' = create_blank_board
    /\ selection' = IF data = << >> THEN <<width \div 2, height \div 2>>
                                     ELSE selection
    /\ show_everything' = SHOW_EVERYTHING
    /\ is_touched' = FALSE
    /\ screen' = draw_board(create_blank_board, SHOW_EVERYTHING)
    /\ pc' = "run"
    /\ UNCHANGED <<num_mines, width, height>>

\* Game::run up to its loop: blank board, reset, first draw
RunStart ==
    /\ data' = create_blank_board
    /\ selection' = <<width \div 2, height \div 2>>
    /\ show_everything' = SHOW_EVERYTHING
    /\ is_touched' = FALSE
    /\ screen' = draw_board(create_blank_board, SHOW_EVERYTHING)
    /\ pc' = "run"
    /\ UNCHANGED <<num_mines, width, height>>

\* main calls game.run()
Run ==
    /\ pc = "main"
    /\ RunStart

\* mutant of end_screen: show_everything is not set
end_screen_still_covered(d, message) ==
    /\ show_everything' = show_everything
    /\ screen' = draw_board(d, show_everything)
    /\ pc' = message

\* end_screen up to its loop
end_screen(d, message) ==
    /\ show_everything' = TRUE
    /\ screen' = draw_board(d, TRUE)
    /\ pc' = message

\* mutant of AfterInput: the loss test does not look at covered
AfterInputAnyMine(d) ==
    IF get_current_cell(d).cell_type = Mine
    THEN end_screen(d, "lost")
    ELSE IF has_won(d)
    THEN end_screen(d, "won")
    ELSE /\ screen' = draw_board(d, show_everything)
         /\ UNCHANGED <<show_everything, pc>>

\* the end of the loop body of run, after Mark and Select: the loss test on
\* the cell under the cursor, the win test, the redraw
AfterInput(d) ==
    IF get_current_cell(d).cell_type = Mine /\ get_current_cell(d).covered = FALSE
    THEN end_screen(d, "lost")
    ELSE IF has_won(d)
    THEN end_screen(d, "won")
    ELSE /\ screen' = draw_board(d, show_everything)
         /\ UNCHANGED <<show_everything, pc>>

\* get_input for the arrow keys and wasd: the cell the key asks for
Change(key) ==
    CASE key = "Up" -> <<selection[1], selection[2] + 1>>
      [] key = "Down" -> <<selection[1], selection[2] - 1>>
      [] key = "Left" -> <<selection[1] - 1, selection[2]>>
      [] key = "Right" -> <<selection[1] + 1, selection[2]>>

\* mutant of get_input: past an edge the cursor goes on to the other side
get_input_wrapping(key) ==
    <<Change(key)[1] % width, Change(key)[2] % height>>

\* mutant of get_input: the cell the key asks for is not looked up
get_input_unchecked(key) == Change(key)

\* Input::Direction of get_input
get_input(key) ==
    IF cell_exists(data, Change(key)) THEN Change(key) ELSE selection

Direction(key) ==
    /\ pc = "run"
    /\ selection' = get_input(key)
    /\ UNCHANGED <<data, num_mines, width, height, is_touched,
                   show_everything, screen, pc>>

NumMarked == Cardinality({c \in DOMAIN data : data[c].marked})

\* mutant of Mark: a marked cell is never unmarked
MarkNeverUnmarks ==
    /\ pc = "run"
    /\ IF get_current_cell(data).covered
       THEN /\ NumMarked < MaxMarks \/ get_current_cell(data).marked
            /\ data' = [data EXCEPT ![selection].marked = TRUE]
            /\ AfterInput(data')
       ELSE UNCHANGED <<data, show_everything, screen, pc>>
    /\ UNCHANGED <<num_mines, width, height, selection, is_touched>>

\* mutant of Mark: a Mark on an uncovered cell covers it again
MarkCoversCell ==
    /\ pc = "run"
    /\ IF ~get_current_cell(data).marked /\ get_current_cell(data).covered
       THEN /\ NumMarked < MaxMarks
            /\ data' = [data EXCEPT ![selection].marked = TRUE]
            /\ AfterInput(data')
       ELSE IF get_current_cell(data).covered
       THEN /\ data' = [data EXCEPT ![selection].marked = FALSE]
            /\ AfterInput(data')
       ELSE /\ data' = [data EXCEPT ![selection].covered = TRUE]
            /\ AfterInput(data')
    /\ UNCHANGED <<num_mines, width, height, selection, is_touched>>

Mark ==
    /\ pc = "run"
    /\ IF ~get_current_cell(data).marked /\ get_current_cell(data).covered
       THEN /\ NumMarked < MaxMarks
            /\ data' = [data EXCEPT ![selection].marked = TRUE]
            /\ AfterInput(data')
       ELSE IF get_current_cell(data).covered
       THEN /\ data' = [data EXCEPT ![selection].marked = FALSE]
            /\ AfterInput(data')
       ELSE UNCHANGED <<data, show_everything, screen, pc>>
    /\ UNCHANGED <<num_mines, width, height, selection, is_touched>>

\* mutant of Quit: run returns Ok(true), as for Restart
QuitRestarts ==
    /\ pc = "run"
    /\ RunStart

Quit ==
    /\ pc = "run"
    /\ pc' = "exited"
    /\ UNCHANGED <<data, num_mines, width, height, selection, is_touched,
                   show_everything, screen>>

\* Input::Select after the board is populated
SelectCell(d) ==
    IF ~get_current_cell(d).covered
    THEN /\ data' = d
         /\ UNCHANGED <<show_everything, screen, pc>>
    ELSE /\ data' = uncover_cell(d, selection)
         /\ AfterInput(data')

\* mutant of Select: populate_board runs on every Select
SelectAlwaysPopulates ==
    /\ pc = "run"
    /\ is_touched' = TRUE
    /\ \E out \in populate_board(data) :
           IF out.panicked
           THEN /\ data' = out.data
                /\ pc' = "panicked"
                /\ UNCHANGED <<show_everything, screen>>
           ELSE SelectCell(out.data)
    /\ UNCHANGED <<num_mines, width, height, selection>>

Select ==
    /\ pc = "run"
    /\ is_touched' = TRUE
    /\ IF ~is_touched
       THEN \E out \in populate_board(data) :
                IF out.panicked
                THEN /\ data' = out.data
                     /\ pc' = "panicked"
                     /\ UNCHANGED <<show_everything, screen>>
                ELSE SelectCell(out.data)
       ELSE SelectCell(data)
    /\ UNCHANGED <<num_mines, width, height, selection>>

\* Input::Restart: run returns Ok(true) and main calls run again
Restart ==
    /\ pc = "run"
    /\ RunStart

\* mutant of Unrecognized: an unknown key sends the cursor back to the centre
UnrecognizedResetsCursor ==
    /\ pc = "run"
    /\ selection' = <<width \div 2, height \div 2>>
    /\ UNCHANGED <<data, num_mines, width, height, is_touched,
                   show_everything, screen, pc>>

\* a key get_input does not know: None => continue
Unrecognized ==
    /\ pc = "run"
    /\ UNCHANGED vars

\* 'q' in end_screen
EndQuit ==
    /\ pc \in {"won", "lost"}
    /\ pc' = "exited"
    /\ UNCHANGED <<data, num_mines, width, height, selection, is_touched,
                   show_everything, screen>>

\* 'r' in end_screen
EndRestart ==
    /\ pc \in {"won", "lost"}
    /\ RunStart

\* mutant of EndOther: the arrow keys still move the cursor on the end screen
EndOtherMovesCursor ==
    /\ pc \in {"won", "lost"}
    /\ \E key \in {"Up", "Down", "Left", "Right"} : selection' = get_input(key)
    /\ UNCHANGED <<data, num_mines, width, height, is_touched,
                   show_everything, screen, pc>>

\* every other event in end_screen, the keys of Select, Mark and Direction
\* among them: continue
EndOther ==
    /\ pc \in {"won", "lost"}
    /\ UNCHANGED vars

Next ==
    \/ Run
    \/ \E key \in {"Up", "Down", "Left", "Right"} : Direction(key)
    \/ Mark
    \/ Quit
    \/ Select
    \/ Restart
    \/ Unrecognized
    \/ EndQuit
    \/ EndRestart
    \/ EndOther

\* the program on the first level
Spec == Init /\ [][Next]_vars

\* the program on boards of arbitrary dimensions
SpecAnyBoard == InitAnyBoard /\ [][Next]_vars

\* the inputs of a player who never marks a cell
NextUnmarked ==
    \/ Run
    \/ \E key \in {"Up", "Down", "Left", "Right"} : Direction(key)
    \/ Quit
    \/ Select
    \/ Restart
    \/ Unrecognized
    \/ EndQuit
    \/ EndRestart
    \/ EndOther

\* the program on a denser level, played without marks
SpecDense == InitDense /\ [][NextUnmarked]_vars

(***************************************************************************)
(* Notions the properties are stated with                                  *)
(***************************************************************************)
\* two different cells a king's move apart
KingsMove(a, b) ==
    /\ a # b
    /\ a[1] - b[1] \in {-1, 0, 1}
    /\ a[2] - b[2] \in {-1, 0, 1}

\* the cells of board d next to cell c
NeighboursOf(d, c) == {n \in DOMAIN d : KingsMove(n, c)}

MinesOf(d) == {c \in DOMAIN d : d[c].cell_type = Mine}

CoveredOf(d) == {c \in DOMAIN d : d[c].covered}

\* the cursor and the cells around it
SafeZone(d) == {selection} \cup NeighboursOf(d, selection)

\* the least set of Empty cells of d that contains S and every Empty cell next
\* to one of its cells
RECURSIVE EmptyClosure(_, _)
EmptyClosure(d, S) ==
    LET T == S \cup {c \in DOMAIN d :
                        /\ d[c].cell_type = Empty
                        /\ \E n \in S : KingsMove(n, c)}
    IN IF T = S THEN S ELSE EmptyClosure(d, T)

\* the 8-connected component of Empty cells of the Empty cell c, with the
\* Adjacent cells on its border
RevealRegion(d, c) ==
    LET comp == EmptyClosure(d, {c}) IN
    comp \cup {b \in DOMAIN d :
                  /\ d[b].cell_type.tag = "Adjacent"
                  /\ \E n \in comp : KingsMove(n, b)}

\* the step is the first Select of a game and populate_board returned
Generated == pc = "run" /\ ~is_touched /\ is_touched' /\ pc' # "panicked"

C2_FirstSelectNeverLoses ==
    [][(pc = "run" /\ ~is_touched /\ is_touched')
          => /\ pc' \in {"run", "won"}
             /\ ~data'[selection].covered
             /\ data'[selection].cell_type # Mine]_vars

\* C2 witness: a first Select was made away from the initial cursor position
\* with a mark on the board, and the game goes on.
C2_Witness ==
    /\ pc = "run"
    /\ is_touched
    /\ selection # <<width \div 2, height \div 2>>
    /\ ~data[selection].covered
    /\ MinesOf(data) # {}
    /\ \E c \in DOMAIN data : data[c].marked

\* C3: from generation on, in every state of the game, exactly num_mines
\* cells have kind Mine.
C3_ExactlyNumMines ==
    (is_touched /\ pc \in {"run", "won", "lost", "exited"})
        => Cardinality(MinesOf(data)) = num_mines

\* C3 witness: a generated board with two mines on which cells were uncovered
C3_Witness ==
    /\ pc = "run"
    /\ is_touched
    /\ num_mines = 2
    /\ Cardinality(MinesOf(data)) = 2
    /\ \E a \in MinesOf(data), b \in MinesOf(data) : KingsMove(a, b)
    /\ Cardinality(CoveredOf(data)) < Cardinality(DOMAIN data)

\* C4: after generation every cell that is no Mine is Adjacent(n) when
\* exactly n >= 1 of its neighbours are Mines and Empty when none is.
C4_AdjacentCountsMines ==
    (is_touched /\ pc \in {"run", "won", "lost", "exited"})
        => LET mines == MinesOf(data) IN
           \A c \in DOMAIN data \ mines :
              LET n == Cardinality({m \in mines : KingsMove(m, c)}) IN
              data[c].cell_type = IF n = 0 THEN Empty ELSE Adjacent(n)

\* C4 witness: a generated board with a corner cell next to one mine, a cell
\* next to two mines and an Empty cell on an edge
C4_Witness ==
    /\ is_touched
    /\ pc = "run"
    /\ \E c \in DOMAIN data : data[c].cell_type = Adjacent(2)
    /\ \E c \in {<<0, 0>>, <<width - 1, height - 1>>} :
           data[c].cell_type = Adjacent(1)
    /\ \E c \in DOMAIN data : c[1] = 0 /\ data[c].cell_type = Empty

\* C5: a Select on a covered Empty cell uncovers exactly the reveal region of
\* that cell; every other cell keeps its covered flag.
C5_SelectEmptyUncoversRegion ==
    [][(/\ pc = "run"
        /\ pc' # "panicked"
        /\ data[selection].covered
        /\ ~data'[selection].covered
        /\ data'[selection].cell_type = Empty)
          => \A c \in DOMAIN data :
                data'[c].covered =
                    (data[c].covered /\ c \notin RevealRegion(data', selection))]_vars

\* C5 witness: an Empty region was uncovered and another Empty cell, beyond
\* the Adjacent border, is still covered
C5_Witness ==
    /\ pc = "run"
    /\ is_touched
    /\ \E c \in DOMAIN data : data[c].cell_type = Empty /\ ~data[c].covered
    /\ \E c \in DOMAIN data : data[c].cell_type = Empty /\ data[c].covered

\* C6: in every board state has_won is true if and only if the number of
\* covered cells is exactly num_mines and every mine cell is covered.
C6_HasWonIffOnlyMinesCovered ==
    has_won(data) <=>
        /\ Cardinality(CoveredOf(data)) = num_mines
        /\ MinesOf(data) \subseteq CoveredOf(data)

\* C6 witness: has_won is true on a board with two covered mines
C6_Witness ==
    /\ has_won(data)
    /\ num_mines = 2
    /\ CoveredOf(data) = MinesOf(data)

\* every cell that is no mine is uncovered and every mine is covered
AllSafeCellsUncovered(d) == \A c \in DOMAIN d : d[c].covered <=> d[c].cell_type = Mine

\* C7: the session is Won exactly when, after a Select, all the
\* width*height - num_mines cells that are no mines are uncovered and no mine
\* is; it is never Won while a cell that is no mine is covered.
C7_WonIffAllSafeCellsUncovered ==
    pc \in {"run", "won", "lost"}
        => (pc = "won" <=> (is_touched /\ AllSafeCellsUncovered(data)))

\* C7 witness: Won with the one mine the only covered cell
C7_Witness ==
    /\ pc = "won"
    /\ Cardinality(CoveredOf(data)) = 1
    /\ Cardinality(DOMAIN data \ CoveredOf(data)) = (width * height) - num_mines

\* C8: in InProgress a Select on a covered Mine, marked or not, uncovers it
\* and the session is Lost; the session is Lost only with a Mine uncovered.
C8_SelectMineLoses ==
    /\ [](pc = "lost" => \E c \in MinesOf(data) : ~data[c].covered)
    /\ [][(/\ is_touched
           /\ data[selection].covered
           /\ data[selection].cell_type = Mine
           /\ Select)
             => (pc' = "lost" /\ ~data'[selection].covered)]_vars

\* C8 witness: Lost with the mine under the cursor uncovered, other cells
\* having been uncovered before it
C8_Witness ==
    /\ pc = "lost"
    /\ data[selection].cell_type = Mine
    /\ ~data[selection].covered
    /\ Cardinality(CoveredOf(data)) < Cardinality(DOMAIN data) - 1

\* C9: when the session is Lost every mine cell is shown to the player, not
\* only the one that was selected.
C9_LostShowsAllMines ==
    pc = "lost" => \A c \in MinesOf(data) : screen[c] = "MINE"

\* C9 witness: Lost with a second mine that is still covered, and marked
C9_Witness ==
    /\ pc = "lost"
    /\ \E c \in MinesOf(data) :
           /\ c # selection
           /\ data[c].covered
           /\ data[c].marked
           /\ screen[c] = "MINE"

\* C10: once Won or Lost, no key changes the board, the Selection or the
\* session state, except Quit, which ends the session, and Restart, which
\* starts a fresh game.
C10_WonLostAreTerminal ==
    [][(pc \in {"won", "lost"})
          => ((/\ pc' = "exited"
               /\ UNCHANGED <<data, selection, is_touched, show_everything, screen>>)
              \/ (/\ pc' = "run"
                  /\ ~is_touched'
                  /\ data' = create_blank_board))]_vars

\* C10 witness: the end screen after a win, everything shown
C10_Witness ==
    /\ pc = "won"
    /\ show_everything
    /\ \A c \in DOMAIN data : screen[c] \in {"EMPTY", "NUM", "MINE"}

\* the cells of the grid
Grid == (0..(width - 1)) \X (0..(height - 1))

\* the keys of the four directions
DirectionKeys == {"Up", "Down", "Left", "Right"}

\* the offset a direction key asks for
Offset(key) ==
    CASE key = "Up" -> <<0, 1>>
      [] key = "Down" -> <<0, -1>>
      [] key = "Left" -> <<-1, 0>>
      [] key = "Right" -> <<1, 0>>

\* the cell one step from the cursor in the direction of key
Target(key) == <<selection[1] + Offset(key)[1], selection[2] + Offset(key)[2]>>

\* C11: a Restart, in the game loop (NotTouched, InProgress) and on the end
\* screen (Won, Lost), yields a fresh game: every cell of the grid covered,
\* unmarked and Empty, the Selection at (width/2, height/2), the session
\* NotTouched, so that the next Select generates the mines.
C11_RestartYieldsFreshGame ==
    [][(Restart \/ EndRestart)
          => /\ DOMAIN data' = Grid
             /\ \A c \in Grid : data'[c] = Cell(TRUE, Empty, FALSE)
             /\ selection' = <<width \div 2, height \div 2>>
             /\ pc' = "run"
             /\ ~is_touched'
             /\ ~show_everything'
             /\ UNCHANGED <<width, height, num_mines>>]_vars

\* C11 witness: Lost with the cursor away from its initial position, a mark
\* and uncovered cells on the board, and the Restart of the end screen moves
\* the cursor and covers the board
C11_Witness ==
    /\ pc = "lost"
    /\ selection # <<width \div 2, height \div 2>>
    /\ \E c \in DOMAIN data : data[c].marked
    /\ Cardinality(CoveredOf(data)) < Cardinality(DOMAIN data) - 1
    /\ ENABLED (EndRestart /\ selection' # selection /\ data' # data)

\* C12: a Direction command moves the Selection to the cell one step away in
\* the direction of the key when that cell is on the grid, and leaves the
\* whole state as it is when it is not (no wraparound), so that repeating a
\* command at an edge changes nothing; nothing but the Selection ever changes.
C12_DirectionMovesOrStays ==
    /\ [](pc = "run"
            => \A key \in DirectionKeys :
                  ENABLED (/\ Direction(key)
                           /\ selection' = IF Target(key) \in Grid
                                           THEN Target(key) ELSE selection))
    /\ [][\A key \in DirectionKeys :
             Direction(key)
                => /\ selection' = IF Target(key) \in Grid THEN Target(key)
                                                           ELSE selection
                   /\ Target(key) \notin Grid => UNCHANGED vars
                   /\ UNCHANGED <<data, is_touched, pc, show_everything>>]_vars

\* C12 witness: the cursor in the corner (0, 0) of a game in progress, where
\* Left and Down leave it and Right moves it
C12_Witness ==
    /\ pc = "run"
    /\ is_touched
    /\ selection = <<0, 0>>
    /\ ENABLED (Direction("Left") /\ selection' = selection)
    /\ ENABLED (Direction("Down") /\ selection' = selection)
    /\ ENABLED (Direction("Right") /\ selection' = <<1, 0>>)

\* C13: in every reachable state the Selection (x, y) satisfies
\* 0 <= x < width and 0 <= y < height, and while a game is on the board it
\* is a cell of the board.
C13_SelectionWithinGrid ==
    /\ selection[1] \in 0..(width - 1)
    /\ selection[2] \in 0..(height - 1)
    /\ pc \in {"run", "won", "lost", "exited"} => selection \in DOMAIN data

\* C13 witness: the cursor in the far corner of a touched board, on an
\* uncovered cell, with a mark elsewhere on the board
C13_Witness ==
    /\ pc = "run"
    /\ is_touched
    /\ selection = <<width - 1, height - 1>>
    /\ ~data[selection].covered
    /\ \E c \in DOMAIN data : data[c].marked

\* C14: a Select on a cell that is already uncovered changes nothing (no
\* covered flag, mark or kind, not the Selection, not the session state);
\* and after a Select that leaves the game in progress the selected cell is
\* uncovered, so a second Select on it is such a Select.
C14_SelectUncoveredIsNoOp ==
    [][/\ (pc = "run" /\ ~data[selection].covered /\ Select)
             => UNCHANGED vars
       /\ (pc = "run" /\ pc' = "run" /\ is_touched' /\ (~is_touched \/ Select))
             => ~data'[selection].covered]_vars

\* C14 witness: a game in progress with the cursor on an uncovered cell, other
\* cells that are no mines still covered, and a Select possible
C14_Witness ==
    /\ pc = "run"
    /\ is_touched
    /\ ~data[selection].covered
    /\ \E c \in CoveredOf(data) : data[c].cell_type # Mine
    /\ ENABLED (Select /\ UNCHANGED vars)

\* C15: in NotTouched and InProgress a Mark toggles the marked flag of the
\* selected cell if and only if that cell is covered and changes nothing else
\* of the board, not the Selection and not the session state (no generation
\* in NotTouched); the screen is a function of the board, so two Marks in a
\* row on a covered cell restore the state.  (The model marks at most
\* MaxMarks cells at a time.)
C15_MarkTogglesCoveredCell ==
    /\ [](pc = "run" => screen = draw_board(data, show_everything))
    /\ []((pc = "run" /\ data[selection].covered /\ data[selection].marked)
            => ENABLED (Mark /\ ~data'[selection].marked))
    /\ []((/\ pc = "run"
           /\ data[selection].covered
           /\ ~data[selection].marked
           /\ NumMarked < MaxMarks)
            => ENABLED (Mark /\ data'[selection].marked))
    /\ [][Mark
             => /\ data' = [data EXCEPT
                              ![selection].marked =
                                  IF data[selection].covered THEN ~@ ELSE @]
                /\ UNCHANGED <<selection, is_touched, pc, show_everything,
                               width, height, num_mines>>]_vars

\* C15 witness: NotTouched with a mark on the cell under the cursor, away from
\* the initial position; the next Mark takes it off again
C15_Witness ==
    /\ pc = "run"
    /\ ~is_touched
    /\ selection # <<width \div 2, height \div 2>>
    /\ data[selection].marked
    /\ \A c \in DOMAIN data : data[c].cell_type = Empty
    /\ ENABLED (Mark /\ ~data'[selection].marked)

\* C16: a cell whose covered flag is false gets it true again only by a
\* Restart, which recreates the whole board.
C16_CoveredIsMonotonic ==
    [][(\E c \in DOMAIN data : ~data[c].covered /\ data'[c].covered)
          => (Restart \/ EndRestart)]_vars

\* C16 witness: a game in progress after more than one uncovering, the cursor
\* on a covered cell, a mark on the board; a Restart covers the cells again
C16_Witness ==
    /\ pc = "run"
    /\ is_touched
    /\ data[selection].covered
    /\ \E c \in DOMAIN data : data[c].marked
    /\ Cardinality(DOMAIN data \ CoveredOf(data)) >= 2
    /\ ENABLED (Restart /\ \E c \in DOMAIN data :
                               ~data[c].covered /\ data'[c].covered)

\* C17: in every reachable state no cell is both uncovered and marked.
C17_NoUncoveredCellIsMarked ==
    \A c \in DOMAIN data : ~(~data[c].covered /\ data[c].marked)

\* C17 witness: NotTouched with a mark on a cell away from the cursor, and a
\* layout of populate_board on which uncover_cell, by the flood fill,
\* uncovers that cell and takes its mark off
C17_Witness ==
    /\ pc = "run"
    /\ ~is_touched
    /\ \E c \in DOMAIN data :
          /\ ~KingsMove(c, selection)
          /\ c # selection
          /\ data[c].marked
          /\ \E out \in populate_board(data) :
                /\ ~out.panicked
                /\ ~uncover_cell(out.data, selection)[c].covered
                /\ ~uncover_cell(out.data, selection)[c].marked

\* every cell of the board has the same kind before and after the step
KindsUnchanged ==
    \A c \in DOMAIN data : data'[c].cell_type = data[c].cell_type

\* C18: the mines are generated exactly once per game, by the first Select:
\* until then every cell is Empty, whatever Direction and Mark commands are
\* given; the first Select places the mines; after it no command but Restart
\* changes the kind of a cell.
C18_GenerationOnFirstSelectOnly ==
    /\ []((pc = "run" /\ ~is_touched)
            => \A c \in DOMAIN data : data[c].cell_type = Empty)
    /\ [][/\ (/\ pc = "run"
              /\ ~is_touched
              /\ (Mark \/ \E key \in DirectionKeys : Direction(key)))
                => (~is_touched' /\ \A c \in DOMAIN data' :
                                       data'[c].cell_type = Empty)
          /\ (pc = "run" /\ ~is_touched /\ is_touched')
                => Cardinality(MinesOf(data')) = num_mines
          /\ (is_touched /\ ~(Restart \/ EndRestart)) => KindsUnchanged]_vars

\* C18 witness: a generated board on which, after the first Select, the
\* cursor has moved to a covered cell and marked it
C18_Witness ==
    /\ pc = "run"
    /\ is_touched
    /\ Cardinality(MinesOf(data)) = num_mines
    /\ data[selection].covered
    /\ data[selection].marked
    /\ \E c \in DOMAIN data : data[c].cell_type.tag = "Adjacent"

\* the step of the scenario of C19: on a 3x3 board with 1 mine the first
\* Select is made with the cursor on (0, 0) and the mine is placed at (2, 2)
C19_ScenarioStep ==
    /\ width = 3
    /\ height = 3
    /\ num_mines = 1
    /\ pc = "run"
    /\ ~is_touched
    /\ selection = <<0, 0>>
    /\ is_touched'
    /\ MinesOf(data') = {<<2, 2>>}

BoardsToUncover ==
    IF is_touched THEN {data}
    ELSE {out.data : out \in {o \in populate_board(data) : ~o.panicked}}

\* C21: the reveal started by a Select terminates, from every cursor position
\* and on every board it can start on: no cell is expanded (made the argument
\* of remove_surrounding_empty_cells) twice, so there are at most
\* width * height expansions, nested at most width * height deep; and the
\* board it leaves is the board of uncover_cell.
C21_RevealExpandsEachCellOnce ==
    (pc = "run" /\ data[selection].covered)
        => \A d \in BoardsToUncover :
              LET t == TraceUncover(d, selection) IN
              /\ \A i, j \in 1..Len(t.calls) : t.calls[i] = t.calls[j] => i = j
              /\ Len(t.calls) <= width * height
              /\ t.deepest <= width * height
              /\ \A i \in 1..Len(t.calls) : d[t.calls[i]].cell_type = Empty
              /\ t.data = uncover_cell(d, selection)

\* C21 witness: a first Select whose reveal expands at least five cells,
\* nested at least four deep, and leaves covered a cell that is no mine
C21_Witness ==
    /\ pc = "run"
    /\ ~is_touched
    /\ \E d \in BoardsToUncover :
          LET t == TraceUncover(d, selection) IN
          /\ Len(t.calls) >= 5
          /\ t.deepest >= 4
          /\ \E c \in DOMAIN d : d[c].cell_type # Mine /\ t.data[c].covered

\* C22: a Quit, in the game loop (NotTouched, InProgress) and on the end
\* screen (Won, Lost), is always possible and ends the session with the board
\* and the rest of the state as they were; once the session has ended no
\* step changes anything.
C22_QuitEndsSession ==
    /\ [](pc = "run" => ENABLED (Quit /\ pc' = "exited"))
    /\ [](pc \in {"won", "lost"} => ENABLED (EndQuit /\ pc' = "exited"))
    /\ [][/\ (Quit \/ EndQuit)
                => /\ pc' = "exited"
                   /\ UNCHANGED <<data, selection, is_touched, show_everything,
                                  screen, width, height, num_mines>>
          /\ pc = "exited" => UNCHANGED vars]_vars

\* C22 witness: the session ended by a Quit in the game loop, in InProgress,
\* with uncovered cells and a mark left on the board
C22_Witness ==
    /\ pc = "exited"
    /\ is_touched
    /\ ~show_everything
    /\ \E c \in DOMAIN data : data[c].marked
    /\ \E c \in DOMAIN data : ~data[c].covered

\* C23: while the game loop waits for input no Mine is uncovered; a step of
\* the game loop uncovers no Mine but the one under the cursor, so the reveal
\* uncovers none; Lost has the cell under the cursor as its only uncovered
\* Mine and Won has none.
C23_RevealNeverUncoversMine ==
    /\ [](pc = "run" => MinesOf(data) \subseteq CoveredOf(data))
    /\ [](pc = "won" => MinesOf(data) \subseteq CoveredOf(data))
    /\ [](pc = "lost" => MinesOf(data) \ CoveredOf(data) = {selection})
    /\ [][(pc = "run" /\ pc' # "panicked")
             => \A c \in MinesOf(data') \ {selection} : data'[c].covered]_vars

\* C23 witness: a game in progress on which the reveal has uncovered an
\* Empty cell and cells next to both mines, and both mines are covered
C23_Witness ==
    /\ pc = "run"
    /\ is_touched
    /\ Cardinality(MinesOf(data)) = 2
    /\ MinesOf(data) \subseteq CoveredOf(data)
    /\ \E c \in DOMAIN data : data[c].cell_type = Empty /\ ~data[c].covered
    /\ \A m \in MinesOf(data) : \E n \in NeighboursOf(data, m) : ~data[n].covered

\* C24: while the game loop waits for input every uncovered Empty cell has
\* all its neighbours on the board uncovered.
C24_UncoveredEmptyHasUncoveredNeighbours ==
    pc = "run"
        => \A c \in DOMAIN data :
              (data[c].cell_type = Empty /\ ~data[c].covered)
                 => \A n \in NeighboursOf(data, c) : ~data[n].covered

\* C24 witness: a game in progress with an uncovered Empty cell in a corner,
\* an uncovered Adjacent cell next to an Empty one, and a covered cell that
\* is no mine
C24_Witness ==
    /\ pc = "run"
    /\ is_touched
    /\ \E c \in {<<0, 0>>, <<width - 1, 0>>, <<0, height - 1>>,
                 <<width - 1, height - 1>>} :
          data[c].cell_type = Empty /\ ~data[c].covered
    /\ \E c \in DOMAIN data :
          /\ data[c].cell_type.tag = "Adjacent"
          /\ ~data[c].covered
          /\ \E n \in NeighboursOf(data, c) : data[n].cell_type = Empty
    /\ \E c \in CoveredOf(data) : data[c].cell_type # Mine

\* the cell of index i in the row-major order index = y * width + x
RowMajorCell(i) == <<i % width, i \div width>>

C26_OnlyDirectionMovesSelection ==
    [][/\ (selection' # selection)
             => \/ \E key \in DirectionKeys : Direction(key)
                \/ Restart
                \/ EndRestart
       /\ (Mark \/ Unrecognized \/ Quit) => selection' = selection
       /\ (pc = "run" /\ (IF is_touched THEN Select ELSE is_touched'))
             => selection' = selection
       /\ (\E key \in DirectionKeys : Direction(key))
             => UNCHANGED <<data, is_touched, pc, show_everything, screen,
                            width, height, num_mines>>]_vars

\* C26 witness: NotTouched with the cursor moved to the edge x = 0, every
\* cell still Empty and covered, and a further move possible
C26_Witness ==
    /\ pc = "run"
    /\ ~is_touched
    /\ selection[1] = 0
    /\ \A c \in DOMAIN data : data[c] = Cell(TRUE, Empty, FALSE)
    /\ ENABLED (Direction("Up") /\ selection' # selection)

(***************************************************************************)
(* The earlier revision of the game, src/src/game.rs: run_game with its    *)
(* own board, whose cells are the pairs (is_uncovered, Cell) read here as  *)
(* data[<<x, y>>][1] and data[<<x, y>>][2], its own cursor movement        *)
(* get_next_selection (Up is y - 1) and its own mine placement             *)
(* populate_data.  It has no reveal, no marks and no end of the game.      *)
(*                                                                         *)
(* pc is the place where run_game waits:                                   *)
(*   "game_loop"     event::read() in the loop of run_game                 *)
(*   "game_shuffle"  the loop of populate_data that shuffles again         *)
(*   "game_exited"   the loop of run_game was left by 'q'                  *)
(***************************************************************************)
\* the side of the board of a level of run_game, scaled as LevelSide is
GameLevelSide == 3
\* the mines of that level
GameLevelMines == 1

create_blank_data(w, h) ==
    [c \in (0..(w - 1)) \X (0..(h - 1)) |-> <<FALSE, Empty>>]

\* get_next_selection for the four arrow keys, with the parameters width and
\* height of the function (w and h are its shadowed width - 1, height - 1)
get_next_selection(key, sel, w_, h_) ==
    LET w == w_ - 1
        h == h_ - 1
    IN CASE key = "Up" ->
              IF sel[2] = 0 THEN sel ELSE <<sel[1], sel[2] - 1>>
         [] key = "Down" ->
              IF sel[2] < h THEN <<sel[1], sel[2] + 1>> ELSE sel
         [] key = "Right" ->
              IF sel[1] = w /\ sel[2] < h THEN <<0, sel[2] + 1>>
              ELSE IF sel[2] <= h /\ sel[1] # w THEN <<sel[1] + 1, sel[2]>>
              ELSE sel
         [] key = "Left" ->
              IF sel[1] = 0 /\ sel[2] # 0 THEN <<w, sel[2] - 1>>
              ELSE IF sel[1] = 0 /\ sel[2] = 0 THEN sel
              ELSE <<sel[1] - 1, sel[2]>>

\* draw_board of game.rs: what is printed for every cell
game_draw_board(d) ==
    [c \in DOMAIN d |->
        IF d[c][1]
        THEN (IF d[c][2] = Mine THEN "!"
              ELSE IF d[c][2] = Empty THEN " " ELSE "NUM")
        ELSE "x"]

\* the first loops of populate_data: mine_locations[current_num] decides the
\* kind of the cell (x, y), current_num counting along the rows; mines is the
\* set of the places of mine_locations that hold true after the shuffle
AssignMines(d, mines) ==
    [c \in DOMAIN d |->
        <<d[c][1], IF ((c[2] * width) + c[1]) \in mines THEN Mine ELSE Empty>>]

\* num_adjacent_mines of the cell (x, y): the eight guarded tests
num_adjacent_mines(d, x, y) ==
    LET One(b) == IF b THEN 1 ELSE 0 IN
      One(x > 0 /\ d[<<x - 1, y>>][2] = Mine)
    + One(x < width - 1 /\ d[<<x + 1, y>>][2] = Mine)
    + One(y < height - 1 /\ d[<<x, y + 1>>][2] = Mine)
    + One(y < height - 1 /\ x > 0 /\ d[<<x - 1, y + 1>>][2] = Mine)
    + One(y < height - 1 /\ x < width - 1 /\ d[<<x + 1, y + 1>>][2] = Mine)
    + One(y > 0 /\ d[<<x, y - 1>>][2] = Mine)
    + One(y > 0 /\ x < width - 1 /\ d[<<x + 1, y - 1>>][2] = Mine)
    + One(y > 0 /\ x > 0 /\ d[<<x - 1, y - 1>>][2] = Mine)

\* the last loops of populate_data: an Empty cell with mines around it
\* becomes Adjacent; the loops only read which cells are Mine and only write
\* cells that are not, so the order of the cells does not matter
CalculateAdjacent(d) ==
    [c \in DOMAIN d |->
        IF d[c][2] = Empty /\ num_adjacent_mines(d, c[1], c[2]) > 0
        THEN <<d[c][1], Adjacent(num_adjacent_mines(d, c[1], c[2]))>>
        ELSE d[c]]

\* run_game up to its loop
InitGame ==
    /\ width = GameLevelSide
    /\ height = GameLevelSide
    /\ num_mines = GameLevelMines
    /\ data = create_blank_data(GameLevelSide, GameLevelSide)
    /\ selection = <<0, 0>>
    /\ is_touched = FALSE
    /\ show_everything = SHOW_EVERYTHING
    /\ screen = game_draw_board(create_blank_data(GameLevelSide, GameLevelSide))
    /\ pc = "game_loop"

\* an arrow key in the loop of run_game
GameKey(key) ==
    /\ pc = "game_loop"
    /\ selection' = get_next_selection(key, selection, width, height)
    /\ screen' = game_draw_board(data)
    /\ UNCHANGED <<data, num_mines, width, height, is_touched,
                   show_everything, pc>>

\* populate_data from the test of its loop on: it goes on to the adjacent
\* cells when the selected cell is Empty; when it is not it shuffles
\* mine_locations again, which the board is never read from again
PopulateLoop(d) ==
    IF d[selection][2] = Empty
    THEN /\ is_touched' = TRUE
         /\ data' = [CalculateAdjacent(d) EXCEPT ![selection][1] = TRUE]
         /\ screen' = game_draw_board(data')
         /\ pc' = "game_loop"
    ELSE /\ data' = d
         /\ pc' = "game_shuffle"
         /\ UNCHANGED <<is_touched, screen>>

\* Enter or space in the loop of run_game
GameSelect ==
    /\ pc = "game_loop"
    /\ IF ~is_touched
       THEN \E mines \in KSubsets(0..((width * height) - 1), num_mines) :
               PopulateLoop(AssignMines(data, mines))
       ELSE /\ data' = [data EXCEPT ![selection][1] = TRUE]
            /\ screen' = game_draw_board(data')
            /\ UNCHANGED <<is_touched, pc>>
    /\ UNCHANGED <<num_mines, width, height, selection, show_everything>>

\* one more turn of the loop of populate_data
GameReshuffle ==
    /\ pc = "game_shuffle"
    /\ PopulateLoop(data)
    /\ UNCHANGED <<num_mines, width, height, selection, show_everything>>

\* 'q' in the loop of run_game
GameQuit ==
    /\ pc = "game_loop"
    /\ pc' = "game_exited"
    /\ UNCHANGED <<data, num_mines, width, height, selection, is_touched,
                   show_everything, screen>>

\* any other event in the loop of run_game
GameOther ==
    /\ pc = "game_loop"
    /\ screen' = game_draw_board(data)
    /\ UNCHANGED <<data, num_mines, width, height, selection, is_touched,
                   show_everything, pc>>

NextGame ==
    \/ \E key \in DirectionKeys : GameKey(key)
    \/ GameSelect
    \/ GameReshuffle
    \/ GameQuit
    \/ GameOther

\* run_game of game.rs
SpecGame == InitGame /\ [][NextGame]_vars

\* C27: in game.rs populate_data always returns, and the selected cell is
\* then no Mine: the first Select of run_game leaves the program waiting for
\* the next key, the board touched, the selected cell not a Mine.
C27_PopulateDataReturnsSafe ==
    [][(~is_touched /\ GameSelect)
          => /\ pc' = "game_loop"
             /\ is_touched'
             /\ data'[selection][2] # Mine]_vars

\* the cell one step from the cursor for a key of game.rs, where Up is y - 1
GameTarget(key) ==
    CASE key = "Up" -> <<selection[1], selection[2] - 1>>
      [] key = "Down" -> <<selection[1], selection[2] + 1>>
      [] key = "Left" -> <<selection[1] - 1, selection[2]>>
      [] key = "Right" -> <<selection[1] + 1, selection[2]>>

\* C28: in game.rs get_next_selection returns a cell of the grid, the cell
\* one step away when there is one and the selection itself at an edge:
\* Right in the last column, Left in column 0, Up in row 0 and Down in the
\* last row leave the selection unchanged.
C28_GetNextSelectionClamps ==
    /\ [](selection \in Grid)
    /\ [][\A key \in DirectionKeys :
             GameKey(key)
                => selection' = IF GameTarget(key) \in Grid
                                THEN GameTarget(key) ELSE selection]_vars

====
